---- MODULE Spec2Model ----
(***************************************************************************)
(* Local-search optimizers of metaheuristics_rs.                           *)
(*                                                                         *)
(*   hc   HillClimbingOptimizer::optimize   (src/optim/hill_climbing.rs)   *)
(*   eg   EpsilonGreedyOptimizer::optimize  (src/optim/epsilon_greedy.rs)  *)
(*   run  LocalSearchOptimizer::run         (src/optim/base.rs)            *)
(*                                                                         *)
(* The two optimize loops are run side by side on the same inputs (model,  *)
(* initial state, patience, n_trials, n_iter, callback) and on the same    *)
(* sequence of selected trials, one loop iteration per step.               *)
(***************************************************************************)
EXTENDS Integers, Sequences, FiniteSets, TLC

\* ------------------------------------------------------------------ bounds
MaxState == 2       \* model states are 0 .. MaxState
MaxIter == 3        \* n_iter ranges over 0 .. MaxIter
MaxPatience == 3    \* patience ranges over 0 .. MaxPatience
MaxTrials == 2      \* n_trials ranges over 0 .. MaxTrials
MaxScore == 3       \* arguments current and trial of transition_prob are 0 .. MaxScore
EpsDen == 2         \* epsilon and r are multiples of 1/EpsDen

\* first component of the target of the quadratic test model
Target == 2

VARIABLES
    patience,       \* HillClimbingOptimizer.patience = EpsilonGreedyOptimizer.patience
    n_trials,       \* .n_trials of both optimizers
    epsilon,        \* EpsilonGreedyOptimizer.epsilon, as a numerator over EpsDen
    n_iter,         \* argument n_iter of optimize
    initial_state,  \* argument initial_state of optimize: <<>> is None, <<s>> is Some(s)
    random_state,   \* what model.generate_random_state returns: <<s>> is Ok(s), <<>> is Err
    callback,       \* argument callback of optimize: TRUE is Some(f), FALSE is None
    trials,         \* the selected trial of every iteration generated so far
    hc,             \* locals of HillClimbingOptimizer::optimize
    eg,             \* locals of EpsilonGreedyOptimizer::optimize
    run,            \* locals of LocalSearchOptimizer::run
    tp,             \* one call of relative_annealing::transition_prob
    gls,            \* locals of the generic engine behind RelativeAnnealingOptimizer
    par             \* the parallel trial batch of the iteration under way

vars == <<patience, n_trials, epsilon, n_iter, initial_state, random_state,
          callback, trials, hc, eg, run, tp, gls, par>>

inputs == <<patience, n_trials, epsilon, n_iter, initial_state, random_state,
            callback>>

\* ------------------------------------------------------------------- model
States == 0 .. MaxState

\* Option<T> and Result<T, E> values over a set S
None == <<>>
Some(s) == <<s>>
Option(S) == {None} \cup {Some(s) : s \in S}

\* OptModel::evaluate_state of the quadratic model: (x - target)^2
evaluate_state(s) == (s - Target) * (s - Target)

\* OptModel::generate_trial_state: any state of the model may be proposed as
\* the neighbour of any state; the score returned with it is the state's score
generate_trial_state(current_state) ==
    {[state |-> s, score |-> evaluate_state(s)] : s \in States}

\* (0..n_trials).into_par_iter().map(..): the batches of n trials
TrialBatches(current_state, n) ==
    [1 .. n -> generate_trial_state(current_state)]

\* .min_by_key(|(_, score)| *score): None on an empty batch, else an element
\* of minimal score (which one among equals is left to the reduction order)
min_by_key(batch) ==
    IF DOMAIN batch = {} THEN {None}
    ELSE {Some(batch[k]) : k \in {i \in DOMAIN batch :
              \A j \in DOMAIN batch : batch[i].score <= batch[j].score}}

\* a selection that falls back to the current state on an empty batch
SelectTrial_EmptyKeepsCurrent(current_state, n) ==
    IF n = 0
    THEN {Some([state |-> current_state,
                score |-> evaluate_state(current_state)])}
    ELSE UNION {min_by_key(b) : b \in TrialBatches(current_state, n)}

\* the outcomes of the trial selection of one iteration
SelectTrial(current_state, n) ==
    UNION {min_by_key(b) : b \in TrialBatches(current_state, n)}

\* uniform draw r in [0, 1), as a numerator over EpsDen
Draws == 0 .. (EpsDen - 1)

\* OptProgress::new(it, accepted_counter, best_state.clone(), best_score):
\* best_state.clone() clones the Rc, so the record's state is the same
\* RefCell as the loop's best_state; at_delivery remembers what it held then
OptProgress(it, accepted_counter, best_state, best_score) ==
    [iteration |-> it, accepted_count |-> accepted_counter,
     state |-> "best_state", best_score |-> best_score,
     at_delivery |-> best_state]

\* ------------------------------------------------------------ optimize loop
\* lines 31-41 of both optimize functions
OptimizeStart(l) ==
    IF initial_state = None /\ random_state = None
    THEN [l EXCEPT !.pc = "panic"]
    ELSE LET s == IF initial_state # None THEN initial_state[1]
                  ELSE random_state[1]
         IN [l EXCEPT !.pc = "loop",
                      !.current_state = s,
                      !.current_score = evaluate_state(s),
                      !.best_state = s,
                      !.best_score = evaluate_state(s),
                      !.counter = 0,
                      !.accepted_counter = 0,
                      !.it = 0,
                      !.trace = <<[state |-> s, score |-> evaluate_state(s),
                                   best_score |-> evaluate_state(s),
                                   accepted_counter |-> 0]>>]

\* if let Some(f) = callback { f(OptProgress::new(..)) }; the callback keeps
\* every record it is given
InvokeCallback(l, it) ==
    IF callback
    THEN [l EXCEPT !.progress = Append(@,
              OptProgress(it, l.accepted_counter, l.best_state, l.best_score))]
    ELSE l

\* end of one pass through the loop body: the ghost trace gets the current
\* pair, best_score and accepted_counter, and the iteration count moves on
EndIteration(l) ==
    [l EXCEPT !.it = @ + 1,
              !.trace = Append(@, [state |-> l.current_state,
                                   score |-> l.current_score,
                                   best_score |-> l.best_score,
                                   accepted_counter |-> l.accepted_counter])]

\* a greedy test that takes every trial of a different score
HCAccept_AnyChange(trial_score, current_score) == trial_score # current_score

\* hill_climbing.rs line 54
HCAccept(trial_score, current_score) == trial_score < current_score

\* hill_climbing.rs line 63
HCGiveUp(counter) == counter >= patience

\* a loop body whose accept branch leaves the best snapshot alone
HCBody_BestNotTracked(l, trial) ==
    IF HCAccept(trial.score, l.current_score)
    THEN EndIteration(InvokeCallback(
             [l EXCEPT !.current_state = trial.state,
                       !.current_score = trial.score,
                       !.counter = 0,
                       !.accepted_counter = @ + 1], l.it))
    ELSE LET c == [l EXCEPT !.counter = @ + 1]
         IN IF HCGiveUp(c.counter)
            THEN EndIteration([c EXCEPT !.pc = "break"])
            ELSE EndIteration(InvokeCallback(c, l.it))

\* hill_climbing.rs lines 54-72, one pass through the loop body
HCBody(l, trial) ==
    IF HCAccept(trial.score, l.current_score)
    THEN EndIteration(InvokeCallback(
             [l EXCEPT !.current_state = trial.state,
                       !.current_score = trial.score,
                       !.best_state = trial.state,
                       !.best_score = trial.score,
                       !.counter = 0,
                       !.accepted_counter = @ + 1], l.it))
    ELSE LET c == [l EXCEPT !.counter = @ + 1]
         IN IF HCGiveUp(c.counter)
            THEN EndIteration([c EXCEPT !.pc = "break"])
            ELSE EndIteration(InvokeCallback(c, l.it))

\* an acceptance test whose noise branch is epsilon >= r
EGAccept_NoiseAtEqual(trial_score, current_score, r) ==
    trial_score < current_score \/ epsilon >= r

\* epsilon_greedy.rs line 76
EGAccept(trial_score, current_score, r) ==
    trial_score < current_score \/ epsilon > r

\* a best update that follows current whenever it moves
EGImproved_AnyChange(current_score, best_score) == current_score # best_score

\* epsilon_greedy.rs line 82
EGImproved(current_score, best_score) == current_score < best_score

\* epsilon_greedy.rs line 89
EGGiveUp(counter) == counter = patience

\* a loop body that counts an accepted trial only when it is an improvement
EGBody_NoiseUncounted(l, trial, r) ==
    LET a == IF EGAccept(trial.score, l.current_score, r)
             THEN [l EXCEPT !.current_state = trial.state,
                            !.current_score = trial.score,
                            !.accepted_counter =
                                IF trial.score < l.current_score
                                THEN @ + 1 ELSE @]
             ELSE l
        b == IF EGImproved(a.current_score, a.best_score)
             THEN [a EXCEPT !.best_state = a.current_state,
                            !.best_score = a.current_score,
                            !.counter = 0]
             ELSE a
        c == [b EXCEPT !.counter = @ + 1]
    IN IF EGGiveUp(c.counter)
       THEN EndIteration([c EXCEPT !.pc = "break"])
       ELSE EndIteration(InvokeCallback(c, l.it))

\* epsilon_greedy.rs lines 74-97, one pass through the loop body
EGBody(l, trial, r) ==
    LET a == IF EGAccept(trial.score, l.current_score, r)
             THEN [l EXCEPT !.current_state = trial.state,
                            !.current_score = trial.score,
                            !.accepted_counter = @ + 1]
             ELSE l
        b == IF EGImproved(a.current_score, a.best_score)
             THEN [a EXCEPT !.best_state = a.current_state,
                            !.best_score = a.current_score,
                            !.counter = 0]
             ELSE a
        c == [b EXCEPT !.counter = @ + 1]
    IN IF EGGiveUp(c.counter)
       THEN EndIteration([c EXCEPT !.pc = "break"])
       ELSE EndIteration(InvokeCallback(c, l.it))

\* hill_climbing.rs line 75
HCResult(l) == <<l.current_state, l.current_score>>

\* a return of current instead of the tracked best
EGResult_Current(l) == <<l.current_state, l.current_score>>

\* epsilon_greedy.rs lines 100-101
EGResult(l) == <<l.best_state, l.best_score>>

\* a loop that has neither returned nor panicked
Active(l) == l.pc \in {"start", "loop", "break"}

\* side-by-side harness: the two runs do not interact, so they are stepped
\* alternately, epsilon-greedy first, until one of them has finished
HCTurn == ~Active(eg) \/ hc.it < eg.it
EGTurn == ~Active(hc) \/ eg.it <= hc.it

\* the selected trial of iteration number i (1-based): the one already
\* generated for the other run, or a fresh selection
TrialOf(i, current_state) ==
    IF i <= Len(trials) THEN {Some(trials[i])}
    ELSE SelectTrial(current_state, n_trials)

Generated(i, t) == IF i <= Len(trials) THEN trials ELSE Append(trials, t)

\* ------------------------------------------------- LocalSearchOptimizer::run
\* (solution, score) pairs handled by run and by the model's hooks
Pairs == {<<s, evaluate_state(s)>> : s \in States}

\* the ModelError values a hook may fail with
ModelErrors == {"infeasible", "rejected"}

\* AnyResult<(SolutionType, ScoreType)>
Ok(p) == [ok |-> TRUE, val |-> p, err |-> ""]
Err(e) == [ok |-> FALSE, val |-> <<>>, err |-> e]
Results == {Ok(p) : p \in Pairs} \cup {Err(e) : e \in ModelErrors}

\* one call made by run: the function, its argument and what it returned
Call(fn, arg, out) == [fn |-> fn, arg |-> arg, out |-> out]

\* base.rs lines 36-42: an Err of generate_random_solution is returned by `?`
ResolveInitial(r, res) ==
    IF r.initial # None
    THEN [r EXCEPT !.pc = "preprocess", !.pair = r.initial[1]]
    ELSE LET called == Append(r.calls,
                 Call("generate_random_solution", <<>>, res))
         IN IF res.ok
            THEN [r EXCEPT !.pc = "preprocess", !.pair = res.val,
                           !.calls = called]
            ELSE [r EXCEPT !.pc = "done", !.result = Some(res),
                           !.calls = called]

\* a preprocess step that swallows the error and keeps the initial pair
Preprocess_IgnoreErr(r, res) ==
    [r EXCEPT !.pc = "optimize",
              !.pair = IF res.ok THEN res.val ELSE r.pair,
              !.calls = Append(@, Call("preprocess_solution", r.pair, res))]

\* base.rs lines 44-45: an Err of preprocess_solution is returned by `?`
Preprocess(r, res) ==
    LET called == Append(r.calls, Call("preprocess_solution", r.pair, res))
    IN IF res.ok
       THEN [r EXCEPT !.pc = "optimize", !.pair = res.val, !.calls = called]
       ELSE [r EXCEPT !.pc = "done", !.result = Some(res), !.calls = called]

\* base.rs lines 47-54: optimize is the implementor's; it returns a pair and
\* invokes the callback it was handed some number of times
Optimize(r, out, k) ==
    [r EXCEPT !.pc = "postprocess", !.pair = out, !.callbacks = @ + k,
              !.calls = Append(@, Call("optimize", r.pair, out))]

\* a return of the pair optimize gave, dropping what the hook returned
Postprocess_Dropped(r, out) ==
    [r EXCEPT !.pc = "done", !.result = Some(Ok(r.pair)),
              !.calls = Append(@, Call("postprocess_solution", r.pair, out))]

\* base.rs lines 56-57
Postprocess(r, out) ==
    [r EXCEPT !.pc = "done", !.pair = out, !.result = Some(Ok(out)),
              !.calls = Append(@, Call("postprocess_solution", r.pair, out))]

NewRun(initial) ==
    [pc |-> "resolve", initial |-> initial, pair |-> <<>>, calls |-> <<>>,
     callbacks |-> 0, result |-> None]

\* ------------------------------------------ relative_annealing::transition_prob
\* f64 arithmetic as the code performs it: IEEE 754 binary64 values with
\* round-to-nearest-even after every operation.  Mantissas exceed the integers
\* of the checker, so natural numbers are little-endian sequences of limbs
\* below Base, without leading zero limbs (0 is the empty sequence).
LimbBits == 15
Base == 32768

Pow2(k) == 2 ^ k

\* the number of bits of a limb
IntBitLen(n) ==
    IF n = 0 THEN 0 ELSE CHOOSE k \in 1 .. LimbBits : Pow2(k - 1) <= n /\ n < Pow2(k)

\* the index of the highest nonzero limb, 0 when there is none
TopLimb(a) ==
    IF \A i \in DOMAIN a : a[i] = 0 THEN 0
    ELSE CHOOSE i \in DOMAIN a :
            a[i] # 0 /\ \A j \in DOMAIN a : j > i => a[j] = 0

BTrim(a) == SubSeq(a, 1, TopLimb(a))

RECURSIVE BFromInt(_)
BFromInt(n) == IF n = 0 THEN <<>> ELSE <<n % Base>> \o BFromInt(n \div Base)

RECURSIVE BToInt(_)
BToInt(a) == IF a = <<>> THEN 0 ELSE a[1] + Base * BToInt(Tail(a))

Limb(a, i) == IF i <= Len(a) THEN a[i] ELSE 0

\* a + b: limb i takes a carry when some lower limb overflows and every limb
\* between is full
BAdd(a, b) ==
    LET n == IF Len(a) > Len(b) THEN Len(a) ELSE Len(b)
        carry(i) ==
            \E j \in 1 .. (i - 1) :
               /\ Limb(a, j) + Limb(b, j) >= Base
               /\ \A k \in (j + 1) .. (i - 1) : Limb(a, k) + Limb(b, k) = Base - 1
    IN BTrim([i \in 1 .. (n + 1) |->
                (Limb(a, i) + Limb(b, i) + (IF carry(i) THEN 1 ELSE 0)) % Base])

\* a - b for a >= b: limb i gives a borrow when some lower limb is short and
\* every limb between is level
BSub(a, b) ==
    LET borrow(i) ==
            \E j \in 1 .. (i - 1) :
               /\ a[j] < Limb(b, j)
               /\ \A k \in (j + 1) .. (i - 1) : a[k] = Limb(b, k)
    IN BTrim([i \in 1 .. Len(a) |->
                (Base + a[i] - Limb(b, i) - (IF borrow(i) THEN 1 ELSE 0)) % Base])

\* -1, 0 or 1 as a < b, a = b or a > b
BCmp(a, b) ==
    IF Len(a) < Len(b) THEN 0 - 1
    ELSE IF Len(a) > Len(b) THEN 1
    ELSE IF \A i \in DOMAIN a : a[i] = b[i] THEN 0
    ELSE LET i == CHOOSE i \in DOMAIN a :
                     a[i] # b[i] /\ \A j \in DOMAIN a : j > i => a[j] = b[j]
         IN IF a[i] < b[i] THEN 0 - 1 ELSE 1

BShlLimbs(a, k) == IF a = <<>> THEN <<>> ELSE [i \in 1 .. k |-> 0] \o a

BShrLimbs(a, k) == IF k >= Len(a) THEN <<>> ELSE SubSeq(a, k + 1, Len(a))

\* a * s for 0 <= s < Base: the low halves of the limb products plus their
\* high halves one limb up
BMulSmall(a, s) ==
    IF s = 0 \/ a = <<>> THEN <<>>
    ELSE BAdd([i \in 1 .. Len(a) |-> (a[i] * s) % Base],
              <<0>> \o [i \in 1 .. Len(a) |-> (a[i] * s) \div Base])

\* the sum of the rows b * a[i] * Base^(i-1) for i in lo .. hi
RECURSIVE BMulRange(_, _, _, _)
BMulRange(a, b, lo, hi) ==
    IF lo = hi THEN BShlLimbs(BMulSmall(b, a[lo]), lo - 1)
    ELSE LET mid == (lo + hi) \div 2
         IN BAdd(BMulRange(a, b, lo, mid), BMulRange(a, b, mid + 1, hi))

BMul(a, b) == IF a = <<>> THEN <<>> ELSE BMulRange(a, b, 1, Len(a))

Reverse(a) == [i \in 1 .. Len(a) |-> a[Len(a) + 1 - i]]

\* floor(a / s) for 0 < s <= 2 * Base; the limbs i .. 1 of the quotient,
\* highest first
RECURSIVE BDivSmallFrom(_, _, _, _)
BDivSmallFrom(a, s, i, rem) ==
    IF i = 0 THEN <<>>
    ELSE LET cur == rem * Base + a[i]
         IN <<cur \div s>> \o BDivSmallFrom(a, s, i - 1, cur % s)

BDivSmall(a, s) == BTrim(Reverse(BDivSmallFrom(a, s, Len(a), 0)))

\* a * 2^k and floor(a / 2^k)
BShl(a, k) == BShlLimbs(BMulSmall(a, Pow2(k % LimbBits)), k \div LimbBits)

BShr(a, k) ==
    LET w == k \div LimbBits
        t == k % LimbBits
    IN IF w >= Len(a) THEN <<>>
       ELSE BTrim([i \in 1 .. (Len(a) - w) |->
                     Limb(a, i + w) \div Pow2(t)
                       + (Limb(a, i + w + 1) % Pow2(t)) * Pow2(LimbBits - t)])

BBitLen(a) ==
    IF a = <<>> THEN 0
    ELSE LimbBits * (Len(a) - 1) + IntBitLen(a[Len(a)])

\* bit k of a (bit 0 is the lowest), and whether all bits below k are 0
BTestBit(a, k) ==
    (Limb(a, k \div LimbBits + 1) \div Pow2(k % LimbBits)) % 2 = 1

BLowZero(a, k) ==
    /\ \A i \in 1 .. (k \div LimbBits) : Limb(a, i) = 0
    /\ Limb(a, k \div LimbBits + 1) % Pow2(k % LimbBits) = 0

\* the largest q in lo .. lo + 8 * step - 1 with q * b <= a, found one octal
\* digit at a time (lo * b <= a)
RECURSIVE QuotLimb(_, _, _, _)
QuotLimb(a, b, lo, step) ==
    LET fits(d) == BCmp(BMulSmall(b, lo + d * step), a) <= 0
        d == CHOOSE d \in 0 .. 7 : fits(d) /\ (d = 7 \/ ~fits(d + 1))
    IN IF step = 1 THEN lo + d ELSE QuotLimb(a, b, lo + d * step, step \div 8)

\* floor(a / b) and whether the division left a remainder, b > 0: long
\* division over the limbs i .. 1 of a, the quotient's highest limb first
RECURSIVE BDivFrom(_, _, _, _)
BDivFrom(a, b, i, rem) ==
    IF i = 0 THEN [quo |-> <<>>, inexact |-> rem # <<>>]
    ELSE LET cur == BTrim(<<a[i]>> \o rem)
             q == QuotLimb(cur, b, 0, Base \div 8)
             rest == BDivFrom(a, b, i - 1, BSub(cur, BMulSmall(b, q)))
         IN [quo |-> <<q>> \o rest.quo, inexact |-> rest.inexact]

BDiv(a, b) ==
    LET d == BDivFrom(a, b, Len(a), <<>>)
    IN [quo |-> BTrim(Reverse(d.quo)), inexact |-> d.inexact]

\* f64 values: NaN, +-0, +-inf, or the finite (-1)^neg * m * 2^e with
\* 2^52 <= m < 2^53 (normal) or e = MinExp and 0 < m < 2^52 (subnormal)
MantBits == 53
MinExp == 0 - 1074
MaxExp == 971

NaN == [class |-> "nan", neg |-> FALSE, e |-> 0, m |-> <<>>]
SignedZero(neg) == [class |-> "zero", neg |-> neg, e |-> 0, m |-> <<>>]
SignedInf(neg) == [class |-> "inf", neg |-> neg, e |-> 0, m |-> <<>>]
Zero == SignedZero(FALSE)
Inf == SignedInf(FALSE)

\* the f64 of sign neg and magnitude m * 2^e, m < 2^54 already rounded
Pack(neg, e, m) ==
    LET over == BBitLen(m) > MantBits
        m1 == IF over THEN BShr(m, 1) ELSE m
        e1 == IF over THEN e + 1 ELSE e
    IN IF m1 = <<>> THEN SignedZero(neg)
       ELSE IF e1 > MaxExp THEN SignedInf(neg)
       ELSE [class |-> "finite", neg |-> neg, e |-> e1, m |-> m1]

\* the f64 nearest to (-1)^neg * n * 2^s (ties to even), where sticky says
\* that the exact value is a little above n * 2^s, by less than 2^s
RoundF64(neg, n, s, sticky) ==
    IF n = <<>> THEN SignedZero(neg)
    ELSE LET fit == s + BBitLen(n) - MantBits
             e == IF fit > MinExp THEN fit ELSE MinExp
             k == e - s
         IN IF k <= 0 THEN Pack(neg, e, BShl(n, 0 - k))
            ELSE LET q == BShr(n, k)
                     half == BTestBit(n, k - 1)
                     rest == sticky \/ ~BLowZero(n, k - 1)
                     up == half /\ (rest \/ BTestBit(q, 0))
                 IN Pack(neg, e, IF up THEN BAdd(q, <<1>>) ELSE q)

\* `as f64` / Into<f64> of an integer
F64OfInt(i) == RoundF64(i < 0, BFromInt(IF i < 0 THEN 0 - i ELSE i), 0, FALSE)

One == F64OfInt(1)

\* unary minus
fneg(a) == IF a.class = "nan" THEN NaN ELSE [a EXCEPT !.neg = ~a.neg]

\* a + b
fadd(a, b) ==
    IF a.class = "nan" \/ b.class = "nan" THEN NaN
    ELSE IF a.class = "inf"
    THEN (IF b.class = "inf" /\ a.neg # b.neg THEN NaN ELSE a)
    ELSE IF b.class = "inf" THEN b
    ELSE IF a.class = "zero"
    THEN (IF b.class = "zero" THEN SignedZero(a.neg /\ b.neg) ELSE b)
    ELSE IF b.class = "zero" THEN a
    ELSE LET e == IF a.e < b.e THEN a.e ELSE b.e
             x == BShl(a.m, a.e - e)
             y == BShl(b.m, b.e - e)
             c == BCmp(x, y)
         IN IF a.neg = b.neg THEN RoundF64(a.neg, BAdd(x, y), e, FALSE)
            ELSE IF c = 0 THEN Zero
            ELSE IF c > 0 THEN RoundF64(a.neg, BSub(x, y), e, FALSE)
            ELSE RoundF64(b.neg, BSub(y, x), e, FALSE)

\* a - b
fsub(a, b) == fadd(a, fneg(b))

\* a * b
fmul(a, b) ==
    IF a.class = "nan" \/ b.class = "nan" THEN NaN
    ELSE IF a.class = "inf" \/ b.class = "inf"
    THEN (IF a.class = "zero" \/ b.class = "zero" THEN NaN
          ELSE SignedInf(a.neg # b.neg))
    ELSE IF a.class = "zero" \/ b.class = "zero" THEN SignedZero(a.neg # b.neg)
    ELSE RoundF64(a.neg # b.neg, BMul(a.m, b.m), a.e + b.e, FALSE)

\* a / b
fdiv(a, b) ==
    IF a.class = "nan" \/ b.class = "nan" THEN NaN
    ELSE IF a.class = "inf"
    THEN (IF b.class = "inf" THEN NaN ELSE SignedInf(a.neg # b.neg))
    ELSE IF b.class = "inf" THEN SignedZero(a.neg # b.neg)
    ELSE IF b.class = "zero"
    THEN (IF a.class = "zero" THEN NaN ELSE SignedInf(a.neg # b.neg))
    ELSE IF a.class = "zero" THEN SignedZero(a.neg # b.neg)
    ELSE LET k == MantBits + 3 + BBitLen(b.m) - BBitLen(a.m)
             d == BDiv(BShl(a.m, k), b.m)
         IN RoundF64(a.neg # b.neg, d.quo, a.e - b.e - k, d.inexact)

\* fixed point for exp: naturals scaled by 2^FracBits
FracLimbs == 9
FracBits == FracLimbs * LimbBits
FixOne == BShlLimbs(<<1>>, FracLimbs)

\* floor(ln 2 * 2^FracBits), and floor(2^12 / ln 2)
Ln2 == <<22432, 29430, 12295, 3790, 24143, 30618, 31289, 1533, 22713>>
InvLn2 == 5909

\* the largest q >= n with q * ln 2 <= x
RECURSIVE FloorQuot(_, _)
FloorQuot(x, n) ==
    IF BCmp(BMulSmall(Ln2, n + 1), x) <= 0 THEN FloorQuot(x, n + 1) ELSE n

\* e^x is (e^(x / 2^SquareSteps))^(2^SquareSteps): the series runs on the
\* small argument and its sum is squared SquareSteps times
SquareSteps == 8

\* v^(2^j) in fixed point (0 stays 0)
RECURSIVE Squared(_, _)
Squared(v, j) ==
    IF j = 0 \/ v = <<>> THEN v
    ELSE Squared(BShrLimbs(BMul(v, v), FracLimbs), j - 1)

\* sum of the series r^k / k! from the term of index k on, until a term
\* leaves the sum as it is
RECURSIVE ExpSeries(_, _, _, _)
ExpSeries(r, term, k, sum) ==
    LET next == BAdd(sum, term)
    IN IF next = sum THEN sum
       ELSE ExpSeries(r, BDivSmall(BShrLimbs(BMul(term, r), FracLimbs), k),
                      k + 1, next)

\* f64::exp is the platform's libm exp, which is not correctly rounded: its
\* error stays below 1/2 + 2^-ExpSlackBits ulp, and which neighbour it returns
\* for a value that close to the midpoint of two f64 depends on the build
ExpSlackBits == 6

\* the f64 values a result of exact value a little above n * 2^s can come out
\* as: the nearest f64, and also the other neighbour when the value lies
\* within 2^-ExpSlackBits ulp of the midpoint of the two
NearF64(n, s) ==
    LET fit == s + BBitLen(n) - MantBits
        e == IF fit > MinExp THEN fit ELSE MinExp
        k == e - s
        q == BShr(n, k)
        half == BTestBit(n, k - 1)
        tie == /\ k > ExpSlackBits
               /\ \A i \in 2 .. ExpSlackBits : BTestBit(n, k - i) # half
    IN IF tie THEN {Pack(FALSE, e, q), Pack(FALSE, e, BAdd(q, <<1>>))}
       ELSE {RoundF64(FALSE, n, s, TRUE)}

\* f64::exp, as the set of values the call can return: x = n * ln 2 + r with
\* 0 <= r < ln 2, and e^x = e^r * 2^n with e^r in [1, 2) summed in fixed point
exp(x) ==
    IF x.class = "nan" THEN {NaN}
    ELSE IF x.class = "inf" THEN (IF x.neg THEN {Zero} ELSE {Inf})
    ELSE IF x.class = "zero" THEN {One}
    ELSE IF x.e + BBitLen(x.m) > 10 THEN (IF x.neg THEN {Zero} ELSE {Inf})
    ELSE LET sh == x.e + FracBits
             mag == IF sh >= 0 THEN BShl(x.m, sh) ELSE BShr(x.m, 0 - sh)
             q == FloorQuot(mag,
                     (BToInt(BShr(mag, FracBits - 8)) * InvLn2) \div Pow2(20))
             low == BMulSmall(Ln2, q)
             whole == ~x.neg \/ BCmp(low, mag) = 0
             n == IF ~x.neg THEN q ELSE IF whole THEN 0 - q ELSE 0 - (q + 1)
             r == IF whole THEN BSub(mag, low)
                  ELSE BSub(BAdd(low, Ln2), mag)
             small == ExpSeries(BShr(r, SquareSteps), FixOne, 1, <<>>)
         IN NearF64(Squared(small, SquareSteps), n - FracBits)

\* comparison of f64 values; every comparison with NaN is false, -0 = +0
Rank(p) == IF p.class = "zero" THEN 0 ELSE IF p.class = "finite" THEN 1 ELSE 2

\* -1, 0 or 1 as |p| < |q|, |p| = |q| or |p| > |q|
MagCmp(p, q) ==
    IF Rank(p) # Rank(q) THEN (IF Rank(p) < Rank(q) THEN 0 - 1 ELSE 1)
    ELSE IF p.class # "finite" THEN 0
    ELSE IF p.e # q.e THEN (IF p.e < q.e THEN 0 - 1 ELSE 1)
    ELSE BCmp(p.m, q.m)

FCmp(p, q) ==
    IF p.class = "zero" /\ q.class = "zero" THEN 0
    ELSE IF p.neg /\ ~q.neg THEN 0 - 1
    ELSE IF ~p.neg /\ q.neg THEN 1
    ELSE IF p.neg THEN 0 - MagCmp(p, q)
    ELSE MagCmp(p, q)

FGt(p, q) == p.class # "nan" /\ q.class # "nan" /\ FCmp(p, q) > 0

FEq(p, q) == p.class # "nan" /\ q.class # "nan" /\ FCmp(p, q) = 0

FGe(p, q) == FGt(p, q) \/ FEq(p, q)

\* a transition_prob that divides by the trial score
transition_prob_OverTrial(current, trial, w) ==
    LET d == fdiv(fsub(trial, current), trial)
    IN exp(fmul(fneg(w), d))

\* a transition_prob with the sign of the exponent lost
transition_prob_SignLost(current, trial, w) ==
    LET d == fdiv(fsub(trial, current), current)
    IN exp(fmul(w, d))

\* relative_annealing.rs lines 7-12, on the f64 values current.into(),
\* trial.into() and w: the set of values the call can return
transition_prob(current, trial, w) ==
    LET d == fdiv(fsub(trial, current), current)
    IN exp(fmul(fneg(w), d))

\* the scores and weights transition_prob is called with; 10 is the weight of
\* the test, 1000 one that drives exp out of the f64 range
Scores == 0 .. MaxScore
Weights == {0, 1, 10, 1000}

\* calls <<current, trial, w>> at the limits of f64::exp: exponents -744.25
\* and -745 (both round to the least subnormal), -745.1333.. and -745.25
\* (both round to 0), 709.7 (finite) and 709.8, 710 (+inf); and calls whose
\* exact value is next to the midpoint of two f64 (exponents -16.1666.. and
\* -29.375), each with the next larger trial
EdgeCalls ==
    {<<4, 2981, 1>>, <<4, 2984, 1>>, <<4, 2985, 1>>, <<15, 11192, 1>>,
     <<10, 9, 7097>>, <<10, 9, 7098>>, <<1, 0, 710>>,
     <<6, 103, 1>>, <<6, 104, 1>>, <<16, 63, 10>>, <<16, 64, 10>>}

\* 1/2 and the largest f64 below 1
Half == fdiv(One, F64OfInt(2))
BelowOne == [Half EXCEPT !.m = BSub(BShl(<<1>>, MantBits), <<1>>)]

\* calls with a trial one f64 step away from current = 1.0, at w = 1: the
\* exponent 2^-53 has e^x next to the midpoint of 1 and the f64 above it
StepCalls == {<<One, BelowOne, One>>, <<One, One, One>>}

\* the f64 literal n/10 (0.9, 1.1, 1.2)
Tenths(n) == fdiv(F64OfInt(n), F64OfInt(10))

\* the calls of test_transition_prob: w = 1e1, current 1.0, trials 0.9, 1.1, 1.2
TestCalls ==
    {<<One, Tenths(9), F64OfInt(10)>>, <<One, Tenths(11), F64OfInt(10)>>,
     <<One, Tenths(12), F64OfInt(10)>>}

\* all calls, as triples of f64 values
Calls ==
    {<<F64OfInt(a[1]), F64OfInt(a[2]), F64OfInt(a[3])>> :
        a \in (Scores \X Scores \X Weights) \cup EdgeCalls}
        \cup TestCalls \cup StepCalls

\* the trials transition_prob is called with for one current and weight
TrialsWith(current, w) ==
    {a[2] : a \in {b \in Calls : b[1] = current /\ b[3] = w}}

IdleProb == [pc |-> "idle", current |-> Zero, trial |-> Zero, w |-> Zero,
             p |-> NaN]

\* --------------------------------- generic engine (relative annealing preset)
\* uniform draw r in [0, 1) of the acceptance test, as f64 values: 0, 1/2 and
\* the largest f64 below 1
UnitDraws == {Zero, Half, BelowOne}

\* accept iff p > r, with p the preset's transition probability
\* (relative_annealing.rs line 73)
EngineScores == {evaluate_state(s) : s \in States}

\* transition_prob over the scores and weights the engine meets: for each, the
\* values the call can return
Probabilities ==
    [c \in EngineScores, t \in EngineScores, w \in Weights |->
        transition_prob(F64OfInt(c), F64OfInt(t), F64OfInt(w))]

Accepts(p, r) == FGt(p, r)

\* steps 3 and 4 of the engine's iteration: acceptance, then best tracking and
\* the patience counter
AcceptAndTrack(l, trial, p, r) ==
    LET a == IF Accepts(p, r)
             THEN [l EXCEPT !.current_state = trial.state,
                            !.current_score = trial.score,
                            !.accepted_counter = @ + 1]
             ELSE l
    IN IF a.current_score < a.best_score
       THEN [a EXCEPT !.best_state = a.current_state,
                      !.best_score = a.current_score,
                      !.counter = 0,
                      !.pc = "restart"]
       ELSE [a EXCEPT !.counter = @ + 1, !.pc = "restart"]

\* step 5 fires when the counter has reached return_iter without reaching
\* the stop patience
RestartDue(l) == l.counter = l.return_iter /\ l.counter < patience

\* a restart that also clears the patience counter
Restart_ClearsCounter(l) ==
    [l EXCEPT !.current_state = l.best_state,
              !.current_score = l.best_score,
              !.counter = 0,
              !.restarts = @ + 1]

\* step 5: return to best
Restart(l) ==
    [l EXCEPT !.current_state = l.best_state,
              !.current_score = l.best_score,
              !.restarts = @ + 1]

\* steps 6 to 8: stop for patience, else callback, else stop on the budget
StopOrContinue(l) ==
    IF l.counter >= patience
    THEN [l EXCEPT !.pc = "done", !.stop = "PatienceExhausted",
                   !.it = @ + 1,
                   !.ret = <<l.best_state, l.best_score>>]
    ELSE LET c == [l EXCEPT !.it = @ + 1,
                            !.callbacks = IF callback THEN @ + 1 ELSE @]
         IN IF c.it = n_iter
            THEN [c EXCEPT !.pc = "done", !.stop = "IterationBudgetExhausted",
                           !.ret = <<l.best_state, l.best_score>>]
            ELSE [c EXCEPT !.pc = "loop"]

\* step 1: the time limit ends the run with the best snapshot
TimeLimit(l) ==
    [l EXCEPT !.pc = "done", !.stop = "TimeLimitReached",
              !.ret = <<l.best_state, l.best_score>>]

\* RelativeAnnealingOptimizer::new(patience, n_trials, return_iter, w) and the
\* engine it builds in optimize, started on state s
NewEngine(s, return_iter, w) ==
    [pc |-> "loop", return_iter |-> return_iter, w |-> w,
     current_state |-> s, current_score |-> evaluate_state(s),
     best_state |-> s, best_score |-> evaluate_state(s),
     counter |-> 0, accepted_counter |-> 0, it |-> 0, callbacks |-> 0,
     restarts |-> 0, stop |-> "", ret |-> <<>>]

IdleEngine == [pc |-> "idle"]

\* ------------------------------------------------------ parallel trial batch
\* (0..self.n_trials): the tasks of one batch
Tasks == 1 .. n_trials

\* (0..self.n_trials).into_par_iter(): a batch is dispatched for the loop
\* `owner`, whose current pair the map closure borrows
Dispatch(l, owner) ==
    [pc |-> "running", owner |-> owner,
     current |-> <<l.current_state, l.current_score>>,
     read |-> [i \in Tasks |-> None], out |-> [i \in Tasks |-> None],
     done |-> {}, order |-> <<>>, acc |-> None, selected |-> None]

\* one step of the min_by_key reduction: the smaller score wins, and between
\* equal scores the reduction order decides
Reduce(acc, t) ==
    IF acc = None THEN {Some(t)}
    ELSE IF t.score < acc[1].score THEN {Some(t)}
    ELSE IF t.score > acc[1].score THEN {acc}
    ELSE {acc, Some(t)}

\* the map closure of task i, run while the loop's locals are l, returned t
TaskDone(p, i, l, t, acc) ==
    [p EXCEPT !.read[i] = Some(<<l.current_state, l.current_score>>),
              !.out[i] = Some(t),
              !.done = @ \cup {i},
              !.order = Append(@, i),
              !.acc = acc]

\* a join that returns as soon as one task has finished
BatchComplete_AnyDone(p) == p.done # {} \/ Tasks = {}

\* .min_by_key(..) returns once every task of the batch has finished
BatchComplete(p) == p.done = Tasks

IdleBatch ==
    [pc |-> "idle", owner |-> "hc", current |-> <<>>, read |-> <<>>,
     out |-> <<>>, done |-> {}, order |-> <<>>, acc |-> None,
     selected |-> None]

NewLoop ==
    [pc |-> "start", current_state |-> 0, current_score |-> 0,
     best_state |-> 0, best_score |-> 0, counter |-> 0,
     accepted_counter |-> 0, it |-> 0, progress |-> <<>>, trace |-> <<>>,
     ret |-> <<>>]

IdleRun == [pc |-> "idle"]

Init ==
    /\ patience \in 0 .. MaxPatience
    /\ n_trials \in 0 .. MaxTrials
    /\ epsilon \in 0 .. EpsDen
    /\ n_iter \in 0 .. MaxIter
    /\ initial_state \in Option(States)
    /\ random_state \in (IF initial_state = None THEN Option(States) ELSE {None})
    /\ callback \in BOOLEAN
    /\ trials = <<>>
    /\ hc = NewLoop
    /\ eg = NewLoop
    /\ run = IdleRun
    /\ tp = IdleProb
    /\ gls = IdleEngine
    /\ par = IdleBatch

HCStart ==
    /\ hc.pc = "start" /\ HCTurn
    /\ hc' = OptimizeStart(hc)
    /\ UNCHANGED <<inputs, tp, gls, par, trials, eg, run>>

HCIterate ==
    /\ hc.pc = "loop" /\ hc.it < n_iter /\ HCTurn
    /\ \E t \in TrialOf(hc.it + 1, hc.current_state) :
          IF t = None
          THEN /\ hc' = [hc EXCEPT !.pc = "panic"]
               /\ UNCHANGED trials
          ELSE /\ hc' = HCBody(hc, t[1])
               /\ trials' = Generated(hc.it + 1, t[1])
    /\ UNCHANGED <<inputs, tp, gls, par, eg, run>>

HCReturn ==
    /\ hc.pc = "break" \/ (hc.pc = "loop" /\ hc.it = n_iter)
    /\ HCTurn
    /\ hc' = [hc EXCEPT !.pc = "done", !.ret = HCResult(hc)]
    /\ UNCHANGED <<inputs, tp, gls, par, trials, eg, run>>

EGStart ==
    /\ eg.pc = "start" /\ EGTurn
    /\ eg' = OptimizeStart(eg)
    /\ UNCHANGED <<inputs, tp, gls, par, trials, hc, run>>

EGIterate ==
    /\ eg.pc = "loop" /\ eg.it < n_iter /\ EGTurn
    /\ \E t \in TrialOf(eg.it + 1, eg.current_state) :
          IF t = None
          THEN /\ eg' = [eg EXCEPT !.pc = "panic"]
               /\ UNCHANGED trials
          ELSE /\ \E r \in Draws : eg' = EGBody(eg, t[1], r)
               /\ trials' = Generated(eg.it + 1, t[1])
    /\ UNCHANGED <<inputs, tp, gls, par, hc, run>>

EGReturn ==
    /\ eg.pc = "break" \/ (eg.pc = "loop" /\ eg.it = n_iter)
    /\ EGTurn
    /\ eg' = [eg EXCEPT !.pc = "done", !.ret = EGResult(eg)]
    /\ UNCHANGED <<inputs, tp, gls, par, trials, hc, run>>

Next ==
    \/ HCStart
    \/ HCIterate
    \/ HCReturn
    \/ EGStart
    \/ EGIterate
    \/ EGReturn

Spec == Init /\ [][Next]_vars

\* ------------------------------------------------------- specification of run
InitRun ==
    /\ patience = 0
    /\ n_trials = 1
    /\ epsilon = 0
    /\ n_iter \in 0 .. MaxIter
    /\ initial_state = None
    /\ random_state = None
    /\ callback \in BOOLEAN
    /\ trials = <<>>
    /\ hc = NewLoop
    /\ eg = NewLoop
    /\ run \in {NewRun(i) : i \in Option(Pairs)}
    /\ tp = IdleProb
    /\ gls = IdleEngine
    /\ par = IdleBatch

RunResolveInitial ==
    /\ run.pc = "resolve"
    /\ \E res \in Results : run' = ResolveInitial(run, res)
    /\ UNCHANGED <<inputs, tp, gls, par, trials, hc, eg>>

RunPreprocess ==
    /\ run.pc = "preprocess"
    /\ \E res \in Results : run' = Preprocess(run, res)
    /\ UNCHANGED <<inputs, tp, gls, par, trials, hc, eg>>

RunOptimize ==
    /\ run.pc = "optimize"
    /\ \E out \in Pairs : \E k \in 0 .. (IF callback THEN n_iter ELSE 0) :
          run' = Optimize(run, out, k)
    /\ UNCHANGED <<inputs, tp, gls, par, trials, hc, eg>>

RunPostprocess ==
    /\ run.pc = "postprocess"
    /\ \E out \in Pairs : run' = Postprocess(run, out)
    /\ UNCHANGED <<inputs, tp, gls, par, trials, hc, eg>>

NextRun ==
    \/ RunResolveInitial
    \/ RunPreprocess
    \/ RunOptimize
    \/ RunPostprocess

SpecRun == InitRun /\ [][NextRun]_vars

\* ==================================================================== claims
\* the state the loops start from, and its score
InitialState ==
    IF initial_state # None THEN initial_state[1] ELSE random_state[1]

InitialScore == evaluate_state(InitialState)

Started(l) == l.pc \in {"loop", "break", "done"}

MinOf(S) == CHOOSE x \in S : \A y \in S : x <= y
MaxOf(S) == CHOOSE x \in S : \A y \in S : x >= y

\* the values current_score held: initially and after every executed iteration
CurrentScores(l) == {l.trace[i].score : i \in 1 .. Len(l.trace)}

\* C1: hill climbing never regresses: current_score never increases from one
\* iteration to the next, and the returned score is <= the initial score
C1_HillClimbingMonotone ==
    [][/\ (hc.pc = "loop" /\ hc'.pc \in {"loop", "break"})
            => hc'.current_score <= hc.current_score
       /\ hc'.pc = "done" => hc'.ret[2] <= InitialScore]_vars

\* C1 witness: a finished run that accepted a trial and rejected a worse one
C1_Witness ==
    /\ hc.pc = "done" /\ n_trials >= 1
    /\ hc.accepted_counter >= 1
    /\ \E i \in 1 .. hc.it : trials[i].score > hc.trace[i].score

\* C2: epsilon-greedy returns the tracked best: the returned score is the
\* minimum of the initial score and of every value current_score held, it is
\* <= current_score at termination, and the returned state had that score
C2_EpsilonGreedyReturnsBest ==
    eg.pc = "done" =>
        /\ eg.ret[2] = MinOf({InitialScore} \cup CurrentScores(eg))
        /\ eg.ret[2] <= eg.current_score
        /\ \E i \in 1 .. Len(eg.trace) :
              eg.trace[i].state = eg.ret[1] /\ eg.trace[i].score = eg.ret[2]

\* C2 witness: a finished run whose current has drifted above a best that
\* improved on the initial state
C2_Witness ==
    /\ eg.pc = "done"
    /\ eg.current_score > eg.ret[2]
    /\ eg.ret[2] < InitialScore

ProgressNonIncreasing(l) ==
    \A i, j \in 1 .. Len(l.progress) :
        i < j => l.progress[j].best_score <= l.progress[i].best_score

\* C3: best_score never increases in a step of either loop, and the best_score
\* of successive progress records never increases
C3_BestScoreMonotone ==
    [][/\ Started(hc) => hc'.best_score <= hc.best_score
       /\ Started(eg) => eg'.best_score <= eg.best_score
       /\ ProgressNonIncreasing(hc')
       /\ ProgressNonIncreasing(eg')]_vars

\* C3 witness: epsilon-greedy has accepted a degrading move after its best
\* improved between two progress records
C3_Witness ==
    /\ Len(eg.progress) >= 2
    /\ eg.progress[2].best_score < eg.progress[1].best_score
    /\ eg.current_score > eg.best_score
    /\ Len(hc.progress) >= 2

\* iteration number i (1-based) of loop l strictly improved best_score
Improving(l, i) == l.trace[i + 1].best_score < l.trace[i].best_score

\* number of the last improving iteration executed so far, 0 if none
LastImprovement(l) == MaxOf({0} \cup {i \in 1 .. l.it : Improving(l, i)})

\* the step executes one pass through the body of loop l
Iterates(l, m) == l.pc = "loop" /\ m.it = l.it + 1

\* C4: in every iteration of either loop the patience counter is reset to
\* zero exactly when best_score strictly improves, and is incremented by one
\* on every other iteration
C4_CounterResetOnImprovement ==
    [][/\ Iterates(hc, hc') =>
             hc'.counter = (IF hc'.best_score < hc.best_score THEN 0
                            ELSE hc.counter + 1)
       /\ Iterates(eg, eg') =>
             eg'.counter = (IF eg'.best_score < eg.best_score THEN 0
                            ELSE eg.counter + 1)]_vars

\* the claimed patience bound for loop l: the iterations executed so far
\* are at most `patience` more than the number of the last improving one
PatienceBound(l) ==
    Started(l) => l.it <= LastImprovement(l) + patience

\* C5: for every patience (0 and 1 included), once `patience` consecutive
\* iterations have passed without improvement the loop has stopped: the
\* iterations executed are <= (number of the last improving one + patience)
C5_PatienceBound == PatienceBound(hc) /\ PatienceBound(eg)

\* the loop gave up for patience before n_iter iterations had run
GaveUpEarly(l) == l.pc = "break" /\ l.it < n_iter

\* the last `patience` executed iterations of loop l all failed to improve
LastPatienceIdle(l) ==
    /\ l.it >= patience
    /\ \A i \in (l.it - patience + 1) .. l.it : ~Improving(l, i)

\* C6: a loop gives up for patience only when its last `patience` executed
\* iterations each failed to strictly improve best_score
C6_GiveUpOnlyWhenIdle ==
    /\ GaveUpEarly(hc) => LastPatienceIdle(hc)
    /\ GaveUpEarly(eg) => LastPatienceIdle(eg)

\* the two runs agree on current after every iteration both have executed
SameCurrent ==
    \A i \in 1 .. MinOf({Len(hc.trace), Len(eg.trace)}) :
        /\ hc.trace[i].state = eg.trace[i].state
        /\ hc.trace[i].score = eg.trace[i].score

\* C7: with epsilon = 0 every epsilon-greedy acceptance decision, whatever the
\* draw r, is the greedy decision: only strictly improving trials are taken,
\* and side by side the two loops hold the same current after each iteration
C7_EpsilonZeroIsGreedy ==
    [][epsilon = 0 =>
         /\ Iterates(eg, eg') =>
               /\ (eg'.accepted_counter = eg.accepted_counter + 1)
                     <=> HCAccept(trials'[eg'.it].score, eg.current_score)
               /\ (eg'.accepted_counter = eg.accepted_counter)
                     <=> ~HCAccept(trials'[eg'.it].score, eg.current_score)
               /\ eg'.current_score < eg.current_score
                     \/ (/\ eg'.current_state = eg.current_state
                         /\ eg'.current_score = eg.current_score)
         /\ SameCurrent']_vars

\* C7 witness: epsilon = 0 and both loops have run two iterations or more on
\* a sequence holding an improving trial and an equal or degrading one
C7_Witness ==
    /\ epsilon = 0
    /\ hc.it >= 2 /\ eg.it >= 2
    /\ eg.accepted_counter >= 1
    /\ \E i \in 1 .. eg.it : trials[i].score >= eg.trace[i].score

\* the names of the functions run has called, in order
CallNames == [i \in 1 .. Len(run.calls) |-> run.calls[i].fn]

Called(fn) == \E i \in 1 .. Len(run.calls) : run.calls[i].fn = fn

\* call c is a hook call that returned Err (optimize and
\* postprocess_solution return a plain pair)
Failed(c) ==
    /\ c.fn \in {"generate_random_solution", "preprocess_solution"}
    /\ ~c.out.ok

\* the pair call c returned
Returned(c) ==
    IF c.fn \in {"generate_random_solution", "preprocess_solution"}
    THEN c.out.val ELSE c.out

\* C8: run fails only before the search starts: a hook's error ends run at
\* once with that error, before optimize, postprocess_solution or the callback
\* is invoked, and once optimize has been entered run returns Ok
C8_RunFailsOnlyBeforeSearch ==
    /\ \A i \in 1 .. Len(run.calls) :
          Failed(run.calls[i]) =>
              /\ i = Len(run.calls)
              /\ run.pc = "done"
              /\ run.result = Some(run.calls[i].out)
    /\ (run.pc = "done" /\ ~run.result[1].ok) =>
          /\ ~Called("optimize")
          /\ ~Called("postprocess_solution")
          /\ run.callbacks = 0
          /\ Failed(run.calls[Len(run.calls)])
    /\ Called("optimize") => (run.pc = "done" => run.result[1].ok)
    /\ Called("optimize") => run.result = None \/ run.result[1].ok

\* C8 witness: without an initial pair, generation succeeded and run then
\* returned the error of preprocess_solution
C8_Witness ==
    /\ run.pc = "done"
    /\ run.initial = None
    /\ Len(run.calls) = 2
    /\ run.result = Some(Err("rejected"))

\* the calls of a successful run
ExpectedCalls ==
    (IF run.initial = None THEN <<"generate_random_solution">> ELSE <<>>)
    \o <<"preprocess_solution", "optimize", "postprocess_solution">>

\* C9: on a successful run the hooks are called once each and in order
\* (generate_random_solution iff no initial pair was supplied), each on the
\* pair the one before returned, and run returns the postprocessed pair
C9_RunCallOrder ==
    /\ run.initial # None => ~Called("generate_random_solution")
    /\ (run.pc = "done" /\ run.result[1].ok) =>
          LET n == Len(run.calls)
              first == IF run.initial = None THEN run.calls[1].out.val
                       ELSE run.initial[1]
          IN /\ CallNames = ExpectedCalls
             /\ run.calls[n - 2].arg = first
             /\ run.calls[n - 2].out.ok
             /\ run.calls[n - 1].arg = run.calls[n - 2].out.val
             /\ run.calls[n].arg = run.calls[n - 1].out
             /\ run.result = Some(Ok(run.calls[n].out))

\* C9 witness: a successful run without an initial pair in which every hook
\* returned a pair other than the one it was given
C9_Witness ==
    /\ run.pc = "done" /\ run.result[1].ok
    /\ run.initial = None
    /\ Len(run.calls) = 4
    /\ \A i \in 2 .. 4 : run.calls[i].arg # Returned(run.calls[i])

\* the state a retained progress record shows now: its state field is the
\* loop's own RefCell
ProgressState(l, rec) == l[rec.state]

\* every progress record delivered by loop l still shows the best state it
\* showed when it was delivered
SnapshotsStable(l) ==
    \A i \in 1 .. Len(l.progress) :
        ProgressState(l, l.progress[i]) = l.progress[i].at_delivery

\* C10: a progress record is an owned snapshot: its best state, once
\* delivered, does not change when the loop later updates its best
C10_ProgressIsSnapshot == SnapshotsStable(hc) /\ SnapshotsStable(eg)

\* loop l has delivered one progress record per executed iteration, in order,
\* each with the iteration index and the accepted count and best score that
\* held at the end of that iteration
CallbackPerIteration(l) ==
    (callback /\ Started(l)) =>
        /\ Len(l.progress) = l.it
        /\ \A i \in 1 .. Len(l.progress) :
              /\ l.progress[i].iteration = i - 1
              /\ i + 1 <= Len(l.trace) =>
                    /\ l.progress[i].accepted_count
                          = l.trace[i + 1].accepted_counter
                    /\ l.progress[i].best_score = l.trace[i + 1].best_score

\* C11: a registered callback is invoked at the end of each iteration: a run
\* that has executed k iterations, the one that stops for patience included,
\* has invoked it k times, with indices 0 .. k-1
C11_CallbackEveryIteration ==
    CallbackPerIteration(hc) /\ CallbackPerIteration(eg)

\* C12: in hill climbing current and best coincide from the start of the loop
\* on, so the returned (current_state, current_score) is the best observed
C12_HillClimbingCurrentIsBest ==
    /\ Started(hc) =>
          /\ hc.best_state = hc.current_state
          /\ hc.best_score = hc.current_score
          /\ hc.best_score = MinOf(CurrentScores(hc))
    /\ hc.pc = "done" => hc.ret = <<hc.best_state, hc.best_score>>

\* C12 witness: a finished hill-climbing run that accepted two trials and
\* rejected one
C12_Witness ==
    /\ hc.pc = "done"
    /\ hc.accepted_counter >= 2
    /\ hc.it > hc.accepted_counter

\* --------------------------------------------- specification of transition_prob
InitProb ==
    /\ patience = 0
    /\ n_trials = 1
    /\ epsilon = 0
    /\ n_iter = 0
    /\ initial_state = None
    /\ random_state = None
    /\ callback = FALSE
    /\ trials = <<>>
    /\ hc = NewLoop
    /\ eg = NewLoop
    /\ run = IdleRun
    /\ tp \in {[pc |-> "call", current |-> a[1], trial |-> a[2], w |-> a[3],
                p |-> NaN] : a \in Calls}
    /\ gls = IdleEngine
    /\ par = IdleBatch

TransitionProb ==
    /\ tp.pc = "call"
    /\ \E p \in transition_prob(tp.current, tp.trial, tp.w) :
          tp' = [tp EXCEPT !.pc = "ret", !.p = p]
    /\ UNCHANGED <<inputs, gls, par, trials, hc, eg, run>>

NextProb == TransitionProb

SpecProb == InitProb /\ [][NextProb]_vars

\* ------------------------------------------ specification of the generic engine
InitEngine ==
    /\ patience \in 0 .. MaxPatience
    /\ n_trials \in 1 .. MaxTrials
    /\ epsilon = 0
    /\ n_iter \in 0 .. MaxIter
    /\ initial_state \in {Some(s) : s \in States}
    /\ random_state = None
    /\ callback \in BOOLEAN
    /\ trials = <<>>
    /\ hc = NewLoop
    /\ eg = NewLoop
    /\ run = IdleRun
    /\ tp = IdleProb
    /\ gls \in {NewEngine(initial_state[1], ri, w) :
                   ri \in 0 .. MaxPatience, w \in Weights}
    /\ par = IdleBatch

\* steps 1 to 4 of one iteration
EngineIterate ==
    /\ gls.pc = "loop" /\ gls.it < n_iter
    /\ \/ gls' = TimeLimit(gls)
       \/ \E t \in SelectTrial(gls.current_state, n_trials) :
             \E p \in Probabilities[gls.current_score, t[1].score, gls.w] :
                \E r \in UnitDraws : gls' = AcceptAndTrack(gls, t[1], p, r)
    /\ UNCHANGED <<inputs, tp, par, trials, hc, eg, run>>

\* step 5 of the iteration
EngineRestart ==
    /\ gls.pc = "restart"
    /\ gls' = [(IF RestartDue(gls) THEN Restart(gls) ELSE gls)
                  EXCEPT !.pc = "stop"]
    /\ UNCHANGED <<inputs, tp, par, trials, hc, eg, run>>

\* steps 6 to 8 of the iteration
EngineStop ==
    /\ gls.pc = "stop"
    /\ gls' = StopOrContinue(gls)
    /\ UNCHANGED <<inputs, tp, par, trials, hc, eg, run>>

\* an engine given no iteration to run returns at once
EngineReturn ==
    /\ gls.pc = "loop" /\ gls.it = n_iter
    /\ gls' = [gls EXCEPT !.pc = "done", !.stop = "IterationBudgetExhausted",
                          !.ret = <<gls.best_state, gls.best_score>>]
    /\ UNCHANGED <<inputs, tp, par, trials, hc, eg, run>>

NextEngine ==
    \/ EngineIterate
    \/ EngineRestart
    \/ EngineStop
    \/ EngineReturn

SpecEngine == InitEngine /\ [][NextEngine]_vars

\* C15: a restart replaces only current (by the best snapshot and its score);
\* best, best_score, the accepted count and the patience counter stay, so the
\* loop still stops once the counter reaches patience whatever return_iter is,
\* and with return_iter >= patience no restart touches the returned result
C15_RestartFrame ==
    [][/\ gls.pc = "restart" =>
             /\ gls'.best_state = gls.best_state
             /\ gls'.best_score = gls.best_score
             /\ gls'.accepted_counter = gls.accepted_counter
             /\ gls'.counter = gls.counter
             /\ gls'.restarts # gls.restarts =>
                   /\ gls'.current_state = gls.best_state
                   /\ gls'.current_score = gls.best_score
             /\ gls'.restarts = gls.restarts =>
                   /\ gls'.current_state = gls.current_state
                   /\ gls'.current_score = gls.current_score
       /\ (gls.pc = "stop" /\ gls.counter >= patience) =>
             gls'.stop = "PatienceExhausted"
       /\ gls'.pc = "loop" => gls'.counter < patience
       /\ gls'.pc = "done" => gls'.ret = <<gls.best_state, gls.best_score>>
       /\ gls.return_iter >= patience => gls'.restarts = 0]_vars

\* C15 witness: a run that restarted from a drifted current and later stopped
\* for patience
C15_Witness ==
    /\ gls.pc = "done"
    /\ gls.stop = "PatienceExhausted"
    /\ gls.restarts >= 1
    /\ gls.accepted_counter >= 2

\* the call in tp has returned, with current > 0
Returned0 == tp.pc = "ret" /\ FGt(tp.current, Zero)

\* C13: transition_prob(c, c, w) is 1 for c > 0; for c > 0 and w > 0 it is
\* strictly decreasing in trial; and it is >= 1 for every trial <= current
C13_TransitionProbStrict ==
    Returned0 =>
        /\ FEq(tp.trial, tp.current) => FEq(tp.p, One)
        /\ FGe(tp.current, tp.trial) => FGe(tp.p, One)
        /\ FGt(tp.w, Zero) => \A t2 \in TrialsWith(tp.current, tp.w) :
              FGt(t2, tp.trial) =>
                  \A p2 \in transition_prob(tp.current, t2, tp.w) :
                      FGt(tp.p, p2)

\* C13 (amended): transition_prob(c, c, w) is 1 for c > 0; for c > 0 and w > 0
\* it is non-increasing in trial; and it is >= 1 for every trial <= current
C13_TransitionProbMonotone ==
    Returned0 =>
        /\ FEq(tp.trial, tp.current) => FEq(tp.p, One)
        /\ FGe(tp.current, tp.trial) => FGe(tp.p, One)
        /\ FGt(tp.w, Zero) => \A t2 \in TrialsWith(tp.current, tp.w) :
              FGt(t2, tp.trial) =>
                  \A p2 \in transition_prob(tp.current, t2, tp.w) :
                      FGe(tp.p, p2)

\* C13 witness: a degrading trial whose probability is positive, below 1, and
\* the same f64 as that of a larger trial
C13_Witness ==
    /\ Returned0 /\ FGt(tp.w, Zero)
    /\ FGt(tp.trial, tp.current)
    /\ FGt(One, tp.p) /\ FGt(tp.p, Zero)
    /\ \E t2 \in TrialsWith(tp.current, tp.w) :
          /\ FGt(t2, tp.trial)
          /\ \E p2 \in transition_prob(tp.current, t2, tp.w) : FEq(tp.p, p2)

\* C14: for current > 0, w > 0 and every trial, transition_prob lies in [0, 1]
C14_TransitionProbInUnitInterval ==
    (Returned0 /\ FGt(tp.w, Zero)) =>
        FGe(tp.p, Zero) /\ FGe(One, tp.p)

\* C14 (amended): for current > 0 and w > 0, transition_prob lies in [0, 1]
\* when trial >= current, and is >= 1 when trial <= current
C14_TransitionProbUnitIffNotImproving ==
    (Returned0 /\ FGt(tp.w, Zero)) =>
        /\ FGe(tp.trial, tp.current) => FGe(tp.p, Zero) /\ FGe(One, tp.p)
        /\ FGe(tp.current, tp.trial) => FGe(tp.p, One)

\* C14 witness: the first call of the test, an improving trial (0.9 against
\* 1.0) whose value is above 1
C14_Witness ==
    /\ Returned0 /\ tp.w = F64OfInt(10)
    /\ tp.current = One /\ tp.trial = Tenths(9)
    /\ FGt(tp.p, One)

\* -------------------------------- specification of the parallel trial batches
\* one optimize call, of either optimizer, with its batches task by task
InitHarness ==
    /\ patience \in 0 .. MaxPatience
    /\ n_trials \in 0 .. MaxTrials
    /\ epsilon \in 0 .. EpsDen
    /\ n_iter \in 0 .. MaxIter
    /\ initial_state \in {Some(s) : s \in States}
    /\ random_state = None
    /\ callback = FALSE
    /\ trials = <<>>
    /\ hc = NewLoop
    /\ eg = NewLoop
    /\ run = IdleRun
    /\ tp = IdleProb
    /\ gls = IdleEngine
    /\ par \in {[IdleBatch EXCEPT !.owner = o] : o \in {"hc", "eg"}}

Owner == IF par.owner = "hc" THEN hc ELSE eg

SetOwner(l) ==
    IF par.owner = "hc" THEN hc' = l /\ eg' = eg ELSE eg' = l /\ hc' = hc

ParStart ==
    /\ Owner.pc = "start"
    /\ SetOwner(OptimizeStart(Owner))
    /\ UNCHANGED <<inputs, tp, gls, par, trials, run>>

ParDispatch ==
    /\ Owner.pc = "loop" /\ Owner.it < n_iter
    /\ par.pc \in {"idle", "joined"}
    /\ par' = Dispatch(Owner, par.owner)
    /\ UNCHANGED <<inputs, tp, gls, trials, hc, eg, run>>

ParTask ==
    /\ par.pc = "running"
    /\ \E i \in Tasks \ par.done :
          \E t \in generate_trial_state(Owner.current_state) :
             \E acc \in Reduce(par.acc, t) :
                par' = TaskDone(par, i, Owner, t, acc)
    /\ UNCHANGED <<inputs, tp, gls, trials, hc, eg, run>>

ParJoin ==
    /\ par.pc = "running" /\ BatchComplete(par)
    /\ par' = [par EXCEPT !.pc = "joined", !.selected = par.acc]
    /\ IF par.acc = None
       THEN SetOwner([Owner EXCEPT !.pc = "panic"])
       ELSE IF par.owner = "hc"
            THEN SetOwner(HCBody(Owner, par.acc[1]))
            ELSE \E r \in Draws : SetOwner(EGBody(Owner, par.acc[1], r))
    /\ UNCHANGED <<inputs, tp, gls, trials, run>>

ParReturn ==
    /\ Owner.pc = "break" \/ (Owner.pc = "loop" /\ Owner.it = n_iter)
    /\ par.pc # "running"
    /\ SetOwner([Owner EXCEPT !.pc = "done",
                    !.ret = IF par.owner = "hc" THEN HCResult(Owner)
                            ELSE EGResult(Owner)])
    /\ UNCHANGED <<inputs, tp, gls, par, trials, run>>

NextHarness ==
    \/ ParStart
    \/ ParDispatch
    \/ ParTask
    \/ ParJoin
    \/ ParReturn

SpecHarness == InitHarness /\ [][NextHarness]_vars

\* C17: with n_trials >= 1, in every interleaving of the tasks of a batch,
\* current is not modified while the batch runs, every task reads the
\* current pair the batch was dispatched with, the acceptance step is taken
\* only when all n_trials tasks have finished, and the trial it is handed is
\* one of the generated trials, of minimal score among them
C17_ParallelTrialHarness ==
    n_trials >= 1 =>
       /\ par.pc = "running" =>
             par.current = <<Owner.current_state, Owner.current_score>>
       /\ \A i \in par.done : par.read[i] = Some(par.current)
       /\ par.pc = "joined" =>
             /\ par.done = Tasks
             /\ par.selected # None
             /\ \E i \in Tasks : par.out[i] = par.selected
             /\ \A i \in Tasks : par.selected[1].score <= par.out[i][1].score
             /\ par.owner = "hc" =>
                   Owner.current_score =
                      MinOf({par.current[2], par.selected[1].score})

\* C17 witness: a batch of two whose second task finished first and produced
\* the strictly better trial, which the loop then accepted
C17_Witness ==
    /\ par.pc = "joined"
    /\ n_trials = 2
    /\ par.order = <<2, 1>>
    /\ par.out[2][1].score < par.out[1][1].score
    /\ par.selected = par.out[2]
    /\ Owner.current_state = par.selected[1].state
    /\ Owner.accepted_counter >= 2

\* the states the Model's trial generation has produced so far
TrialStates == {trials[i].state : i \in 1 .. Len(trials)}

\* loop l stays within n_iter iterations and, once returned, has returned a
\* pair of a state it was given or the Model generated and that state's score
UsableResult(l) ==
    /\ l.it <= n_iter
    /\ l.pc = "done" =>
          /\ l.ret[1] \in {InitialState} \cup TrialStates
          /\ l.ret[2] = evaluate_state(l.ret[1])
          /\ n_iter = 0 =>
                /\ l.ret = <<InitialState, InitialScore>>
                /\ trials = <<>>
                /\ l.progress = <<>>

\* C18: for n_trials >= 1 and every patience and n_iter, optimize never
\* aborts, executes at most n_iter iterations and returns a pair of the
\* initial or a generated state with that state's score; with n_iter = 0 it
\* returns the initial pair without generating a trial or calling back
C18_TerminatesWithResult ==
    n_trials >= 1 =>
       /\ hc.pc # "panic" /\ eg.pc # "panic"
       /\ UsableResult(hc) /\ UsableResult(eg)

\* the step from l to m, if it is an iteration, either rejects its trial and
\* leaves current, best and the accepted count alone, or accepts it, making
\* it current and counting it; a strictly better trial is always accepted
AcceptFrame(l, m, t) ==
    Iterates(l, m) =>
       \/ /\ ~(t.score < l.current_score)
          /\ m.accepted_counter = l.accepted_counter
          /\ m.current_state = l.current_state
          /\ m.current_score = l.current_score
          /\ m.best_state = l.best_state
          /\ m.best_score = l.best_score
       \/ /\ m.accepted_counter = l.accepted_counter + 1
          /\ m.current_state = t.state
          /\ m.current_score = t.score

\* the iterations 1 .. k of loop l after which current was a different state
Moved(l, k) == {i \in 1 .. k : l.trace[i + 1].state # l.trace[i].state}

\* every progress record of loop l reports the accepted count of the end of
\* its iteration; the counts never decrease, are <= iteration + 1 and cover
\* every iteration that changed current
ProgressCounts(l) ==
    \A i \in 1 .. Len(l.progress) :
       LET p == l.progress[i]
       IN /\ p.accepted_count <= p.iteration + 1
          /\ p.accepted_count = l.trace[p.iteration + 2].accepted_counter
          /\ p.accepted_count >= Cardinality(Moved(l, p.iteration + 1))
          /\ i > 1 => l.progress[i - 1].accepted_count <= p.accepted_count

\* C19: an iteration that rejects its trial changes neither current nor best
\* nor the accepted count; one that accepts it makes the selected trial
\* current and adds exactly 1 to the accepted count; hill climbing accepts
\* only strict improvements, so its count is the number of iterations that
\* changed current; the counts reported to the callback are non-decreasing,
\* <= iteration + 1 and equal to the acceptances so far
C19_AcceptStepFrame ==
    /\ [][/\ Iterates(hc, hc') => AcceptFrame(hc, hc', trials'[hc'.it])
          /\ Iterates(eg, eg') => AcceptFrame(eg, eg', trials'[eg'.it])
          /\ (Iterates(hc, hc') /\ hc'.accepted_counter # hc.accepted_counter)
                => trials'[hc'.it].score < hc.current_score]_vars
    /\ [](/\ ProgressCounts(hc) /\ ProgressCounts(eg)
          /\ Started(hc) =>
                hc.accepted_counter = Cardinality(Moved(hc, hc.it)))

\* C19 witness: an epsilon-greedy run reported the counts 1, 1, 2 after
\* accepting a degrading trial, rejecting one and accepting another
C19_Witness ==
    /\ Len(eg.progress) = 3
    /\ eg.progress[1].accepted_count = 1
    /\ eg.progress[2].accepted_count = 1
    /\ eg.progress[3].accepted_count = 2
    /\ eg.trace[2].score > eg.trace[1].score
    /\ hc.accepted_counter = 0

\* loop l aborted inside its first iteration, at the unwrap of the empty
\* reduction: nothing was accepted, reported or returned
AbortedInFirstIteration(l) ==
    /\ l.pc = "panic"
    /\ l.trace # <<>>
    /\ l.it = 0
    /\ l.accepted_counter = 0
    /\ l.progress = <<>>
    /\ l.ret = <<>>
    /\ l.current_state = InitialState

\* loop l aborted after its prologue, i.e. in the loop
AbortedInLoop(l) == l.pc = "panic" /\ l.trace # <<>>

\* C20: any n_trials is taken as given; with n_trials = 0 and n_iter >= 1 a
\* started loop never passes iteration 0: it aborts there, before any
\* acceptance or callback, and returns no pair; and an abort in the loop
\* happens only with n_trials = 0
C20_EmptyBatchAborts ==
    /\ (n_trials = 0 /\ n_iter >= 1) =>
          /\ Started(hc) => hc.pc = "loop" /\ hc.it = 0 /\ hc.progress = <<>>
          /\ Started(eg) => eg.pc = "loop" /\ eg.it = 0 /\ eg.progress = <<>>
          /\ hc.pc = "panic" /\ hc.trace # <<>> => AbortedInFirstIteration(hc)
          /\ eg.pc = "panic" /\ eg.trace # <<>> => AbortedInFirstIteration(eg)
          /\ trials = <<>>
    /\ (AbortedInLoop(hc) \/ AbortedInLoop(eg)) => n_trials = 0 /\ n_iter >= 1

\* C20 witness: both loops have aborted in iteration 0 on an empty batch
C20_Witness ==
    /\ n_trials = 0
    /\ AbortedInFirstIteration(hc)
    /\ AbortedInFirstIteration(eg)

====
